---- MODULE Spec2Model ----
(***************************************************************************)
(* A model of the geolocator pipeline: ImageProcessor (image_processor.py), *)
(* GeoPredictor (model.py), Geocoder (geocoder.py) and the orchestrating    *)
(* command main (main.py).                                                  *)
(*                                                                          *)
(* Conventions.  A Python value that may be None is a sequence of length 0  *)
(* (None) or 1 (the value).  A call's outcome is a record saying whether it *)
(* returned or raised.  A float is an exact rational [num, den]; a distance *)
(* in kilometres is an integer number of metres.  A dict is a function      *)
(* whose domain is its key set.                                             *)
(***************************************************************************)
EXTENDS Integers, Sequences, FiniteSets, TLC

VARIABLES
    pc,          \* position of main in its body
    use_exif,    \* main's --use-exif option
    trace,       \* stage calls and printed lines of the run, in order
    exit_code,   \* None while main runs, then the process's exit code
    locals,      \* main's local variables
    image,       \* ImageProcessor.image
    exif_data,   \* ImageProcessor.exif_data
    is_loaded,   \* GeoPredictor.is_loaded
    ret          \* the last call made on a component outside a run of main

vars == <<pc, use_exif, trace, exit_code, locals, image, exif_data, is_loaded, ret>>

-----------------------------------------------------------------------------
(* Values *)

None == <<>>
Some(v) == <<v>>
Truthy(opt) == opt # None

Return(v) == [kind |-> "return", val |-> <<v>>, msg |-> ""]
Raise(m) == [kind |-> "raise", val |-> <<>>, msg |-> m]

EmptyDict == <<>>
Keys(d) == DOMAIN d

RECURSIVE GCD(_, _)
GCD(a, b) == IF b = 0 THEN a ELSE GCD(b, a % b)

Abs(n) == IF n < 0 THEN -n ELSE n

\* The rational n/d in lowest terms with a positive denominator (d # 0).
Rat(n, d) ==
    LET g == GCD(Abs(n), Abs(d))
        s == IF d < 0 THEN -1 ELSE 1
    IN  [num |-> s * (n \div g), den |-> s * (d \div g)]

RAdd(a, b) == Rat(a.num * b.den + b.num * a.den, a.den * b.den)
RDivInt(a, k) == Rat(a.num, a.den * k)
RNeg(a) == [num |-> -a.num, den |-> a.den]
\* Both sides are in lowest terms (Rat), so equal values are equal records.
REq(a, b) == a.num = b.num /\ a.den = b.den

RECURSIVE Join(_, _)
Join(parts, sep) ==
    IF parts = <<>> THEN ""
    ELSE IF Len(parts) = 1 THEN parts[1]
    ELSE parts[1] \o sep \o Join(Tail(parts), sep)

-----------------------------------------------------------------------------
(* geocoder.py *)

HttpOk == 200

\* Status codes the geocoding service may answer with.
StatusCodes == {200, 201, 204, 301, 404, 500}
ResponseTexts == {"", "Not Found"}

\* A slip: town looked up before city.
LocalityKeysTownFirst == <<"town", "city", "village", "hamlet">>
LocalityKeys == <<"city", "town", "village", "hamlet">>
RegionKeys == <<"state", "province", "region">>
CountryKey == "country"
AddressKeys == {"city", "town", "village", "hamlet", "state", "province",
                "region", "country", "road"}

AddressValue(k, variant) ==
    IF variant = 2 THEN (IF k = "city" THEN "" ELSE "Springfield")
    ELSE CASE k = "city" -> "New York"
           [] k = "town" -> "Smalltown"
           [] k = "village" -> "Littlevillage"
           [] k = "hamlet" -> "Tinyhamlet"
           [] k = "state" -> "New York"
           [] k = "province" -> "Ontario"
           [] k = "region" -> "Midwest"
           [] k = "country" -> "USA"
           [] OTHER -> "Main Street"

\* Address dicts: every key subset; the keys' values in two variants.
Addresses ==
    { [k \in ks |-> AddressValue(k, v)] : ks \in SUBSET AddressKeys, v \in {1, 2} }

\* Bodies response.json() yields: {}, a body without "address", bodies with one.
GeocodeBodies ==
    {EmptyDict, [error |-> "Unable to geocode"]}
        \cup { [display_name |-> "somewhere", address |-> a] : a \in Addresses }

\* What requests.get gives: a response, or an exception of its own.
Response(status, text, body) ==
    [arrived |-> TRUE, status_code |-> status, text |-> text, json |-> body]
ConnectionError ==
    [arrived |-> FALSE, status_code |-> 0, text |-> "Connection refused",
     json |-> EmptyDict]

Responses(bodies) ==
    { Response(s, t, IF s = HttpOk THEN b ELSE EmptyDict) :
        s \in StatusCodes, t \in ResponseTexts, b \in bodies }
        \cup {ConnectionError}

\* A slip: only 4xx and 5xx count as errors.
IsErrorStatusFrom400(status_code) == status_code >= 400
IsErrorStatus(status_code) == status_code # HttpOk

\* Geocoder.reverse_geocode, given what requests.get produced for (lat, lon).
reverse_geocode(lat, lon, response) ==
    IF ~response.arrived THEN Raise(response.text)
    ELSE IF IsErrorStatus(response.status_code)
    THEN Raise("Geocoding API error: " \o ToString(response.status_code)
                   \o " - " \o response.text)
    ELSE Return(response.json)

\* for key in keys: if key in address: parts.append(address[key]); break
RECURSIVE FirstPresent(_, _)
FirstPresent(keys, address) ==
    IF keys = <<>> THEN <<>>
    ELSE IF Head(keys) \in Keys(address) THEN <<address[Head(keys)]>>
    ELSE FirstPresent(Tail(keys), address)

\* Geocoder.format_location
format_location(geocode_data) ==
    IF Keys(geocode_data) = {} THEN "Unknown location"
    ELSE LET address == IF "address" \in Keys(geocode_data)
                        THEN geocode_data["address"] ELSE EmptyDict
             parts == FirstPresent(LocalityKeys, address)
                          \o FirstPresent(RegionKeys, address)
                          \o (IF CountryKey \in Keys(address)
                              THEN <<address[CountryKey]>> ELSE <<>>)
         IN  IF parts # <<>> THEN Join(parts, ", ") ELSE "Unknown location"

MetersPerKm == 1000

\* Distances (metres) the haversine computation may yield for distinct points.
DistanceValues ==
    {0, 999, 1000, 9999, 10000, 10001, 99999, 100000, 100001, 3944000}

\* Geocoder.calculate_distance: the haversine value is not computed here; a
\* point is at distance 0.0 from itself, any other pair at some distance >= 0.
calculate_distance(coords1, coords2) ==
    IF REq(coords1[1], coords2[1]) /\ REq(coords1[2], coords2[2])
    THEN {0} ELSE DistanceValues

-----------------------------------------------------------------------------
(* image_processor.py *)

TargetSize == 224
PixelMax == 255

RGB(r, g, b) == [mode |-> "RGB", bands |-> <<r, g, b>>]
Gray(l) == [mode |-> "L", bands |-> <<l>>]

\* Decoded images, each of one flat colour (its bands are the channel means).
Images == {RGB(77, 204, 77), RGB(204, 77, 77), RGB(77, 77, 204),
           RGB(128, 128, 128), RGB(204, 204, 77), Gray(128)}

\* What Image.open finds at a path: a decodable image or not.
Decodable(img) == [decodable |-> TRUE, image |-> Some(img), error |-> ""]
Undecodable == [decodable |-> FALSE, image |-> None,
                error |-> "cannot identify image file"]
ImageFiles == {Decodable(img) : img \in Images} \cup {Undecodable}

\* ImageProcessor.load_image: the outcome, and self.image afterwards.
load_image(self_image, file) ==
    IF file.decodable
    THEN [out |-> Return(file.image[1]), image |-> file.image]
    ELSE [out |-> Raise("Failed to load image: " \o file.error),
          image |-> self_image]

\* A slip: the image used without the check for None.
preprocess_image_unchecked(self_image) ==
    IF self_image = None
    THEN Raise("'NoneType' object has no attribute 'copy'")
    ELSE LET img == self_image[1]
             rgb == IF img.mode # "RGB"
                    THEN <<img.bands[1], img.bands[1], img.bands[1]>>
                    ELSE img.bands
         IN  Return([shape |-> <<1, TargetSize, TargetSize, 3>>,
                     means |-> [c \in 1..3 |-> Rat(rgb[c], PixelMax)]])

\* ImageProcessor.preprocess_image with the default target size.
preprocess_image(self_image) ==
    IF self_image = None THEN Raise("No image loaded")
    ELSE LET img == self_image[1]
             rgb == IF img.mode # "RGB"
                    THEN <<img.bands[1], img.bands[1], img.bands[1]>>
                    ELSE img.bands
         IN  Return([shape |-> <<1, TargetSize, TargetSize, 3>>,
                     means |-> [c \in 1..3 |-> Rat(rgb[c], PixelMax)]])

GpsLatitude == "GPS GPSLatitude"
GpsLatitudeRef == "GPS GPSLatitudeRef"
GpsLongitude == "GPS GPSLongitude"
GpsLongitudeRef == "GPS GPSLongitudeRef"
GpsKeys == <<GpsLatitude, GpsLatitudeRef, GpsLongitude, GpsLongitudeRef>>
OtherTag == "EXIF Tag"

Ratio(n, d) == [num |-> n, den |-> d]
Tag(v) == [values |-> v]

\* Degrees/minutes/seconds values a file may hold: well formed ones, one with
\* a zero denominator, one with two ratios only.
DmsValues == {
    <<Ratio(40, 1), Ratio(42, 1), Ratio(4608, 100)>>,
    <<Ratio(74, 1), Ratio(0, 1), Ratio(216, 10)>>,
    <<Ratio(0, 1), Ratio(0, 1), Ratio(0, 1)>>,
    <<Ratio(33, 1), Ratio(52, 2), Ratio(1, 0)>>,
    <<Ratio(118, 1), Ratio(14, 1)>> }
RefValues == {"N", "S", "E", "W", "s", ""}

\* Every tag dict over the four GPS keys and one other tag.
TagSets ==
    { [k \in ks |-> CASE k = GpsLatitude -> Tag(la)
                      [] k = GpsLatitudeRef -> Tag(lar)
                      [] k = GpsLongitude -> Tag(lo)
                      [] k = GpsLongitudeRef -> Tag(lor)
                      [] OTHER -> Tag("EXIF Value")] :
        ks \in SUBSET {GpsLatitude, GpsLatitudeRef, GpsLongitude,
                       GpsLongitudeRef, OtherTag},
        la \in DmsValues, lar \in RefValues,
        lo \in DmsValues, lor \in RefValues }

\* What exifread finds at a path: a tag dict, or the file cannot be read.
Readable(tags) == [readable |-> TRUE, tags |-> tags, error |-> ""]
Unreadable == [readable |-> FALSE, tags |-> EmptyDict, error |-> "Permission denied"]

\* ImageProcessor.extract_exif: the outcome, and self.exif_data afterwards.
extract_exif(self_exif_data, file) ==
    IF file.readable
    THEN [out |-> Return(file.tags), exif_data |-> file.tags]
    ELSE [out |-> Raise("Failed to extract EXIF data: " \o file.error),
          exif_data |-> self_exif_data]

\* d, m, s = (float(v.num) / float(v.den) for v in value.values): the ratios
\* are divided one by one as the unpacking asks for them, up to a fourth.
convert_to_degrees(value) ==
    LET vs == value.values
        asked == IF Len(vs) < 4 THEN Len(vs) ELSE 4
    IN  IF \E i \in 1..asked : vs[i].den = 0
        THEN Raise("float division by zero")
        ELSE IF Len(vs) < 3
        THEN Raise("not enough values to unpack (expected 3, got "
                       \o ToString(Len(vs)) \o ")")
        ELSE IF Len(vs) > 3
        THEN Raise("too many values to unpack (expected 3)")
        ELSE LET d == Rat(vs[1].num, vs[1].den)
                 m == Rat(vs[2].num, vs[2].den)
                 s == Rat(vs[3].num, vs[3].den)
             IN  Return(RAdd(RAdd(d, RDivInt(m, 60)), RDivInt(s, 3600)))

DictGet(d, k) == IF k \in Keys(d) THEN Some(d[k]) ELSE None

\* A slip: the reference compared without regard to case.
NegatesLatitudeAnyCase(ref) == ref.values \in {"S", "s"}
NegatesLatitude(ref) == ref.values = "S"
NegatesLongitude(ref) == ref.values = "W"

\* image_processor.py 68-80: the coordinate, all four tags being present.
GpsFromTags(gps_latitude, gps_latitude_ref, gps_longitude, gps_longitude_ref) ==
    LET lat0 == convert_to_degrees(gps_latitude) IN
    IF lat0.kind = "raise" THEN lat0
    ELSE
    LET lat == IF NegatesLatitude(gps_latitude_ref)
               THEN RNeg(lat0.val[1]) ELSE lat0.val[1]
        lon0 == convert_to_degrees(gps_longitude)
    IN  IF lon0.kind = "raise" THEN lon0
        ELSE
        LET lon == IF NegatesLongitude(gps_longitude_ref)
                   THEN RNeg(lon0.val[1]) ELSE lon0.val[1]
        IN  Return(Some(<<lat, lon>>))

\* A slip: the tags read with exif_data[key], which raises on a missing key.
get_gps_from_exif_subscript(self_exif_data) ==
    IF Keys(self_exif_data) = {} THEN Return(None)
    ELSE IF \E i \in 1..4 : GpsKeys[i] \notin Keys(self_exif_data)
    THEN Raise("KeyError")
    ELSE GpsFromTags(self_exif_data[GpsLatitude], self_exif_data[GpsLatitudeRef],
                     self_exif_data[GpsLongitude],
                     self_exif_data[GpsLongitudeRef])

\* ImageProcessor.get_gps_from_exif
get_gps_from_exif(self_exif_data) ==
    IF Keys(self_exif_data) = {} THEN Return(None)
    ELSE
    LET gps_latitude == DictGet(self_exif_data, GpsLatitude)
        gps_latitude_ref == DictGet(self_exif_data, GpsLatitudeRef)
        gps_longitude == DictGet(self_exif_data, GpsLongitude)
        gps_longitude_ref == DictGet(self_exif_data, GpsLongitudeRef)
    IN  IF \/ gps_latitude = None \/ gps_latitude_ref = None
           \/ gps_longitude = None \/ gps_longitude_ref = None
        THEN Return(None)
        ELSE GpsFromTags(gps_latitude[1], gps_latitude_ref[1],
                         gps_longitude[1], gps_longitude_ref[1])

-----------------------------------------------------------------------------
(* model.py *)

Region(name, lat, lon) ==
    [name |-> name, center |-> <<Rat(lat, 10000), Rat(lon, 10000)>>]

\* GeoPredictor.regions, set in __init__ and assigned nowhere else.
regions ==
    (0 :> Region("North America", 407128, -740060)) @@
    (1 :> Region("South America", -157801, -479292)) @@
    (2 :> Region("Europe", 488566, 23522)) @@
    (3 :> Region("Africa", -12921, 368219)) @@
    (4 :> Region("Asia", 356762, 1396503)) @@
    (5 :> Region("Australia", -338688, 1512093))

\* GeoPredictor.__init__
InitIsLoaded == FALSE

\* Largest class index the classifier is taken to output.
MaxClass == 7
\* Softmax probabilities (percent) the classifier is taken to give its choice.
Confidences == {30, 80}

\* What the pretrained model does in one call of predict: whether
\* from_pretrained succeeds, and the arg-max class and its probability.
Inferences ==
    { [available |-> a, predicted_class |-> c, confidence |-> p] :
        a \in BOOLEAN, c \in 0..MaxClass, p \in Confidences }

\* A slip: the class reduced modulo one less than the number of regions.
RegionIdxOffByOne(predicted_class) ==
    predicted_class % (Cardinality(DOMAIN regions) - 1)

\* model.py 81
RegionIdx(predicted_class) == predicted_class % Cardinality(DOMAIN regions)

\* GeoPredictor.predict: the outcome, and self.is_loaded afterwards.
predict(self_is_loaded, image_array, inference) ==
    IF ~self_is_loaded /\ ~inference.available
    THEN [out |-> Raise("Failed to load model: model files not found"),
          is_loaded |-> self_is_loaded]
    ELSE LET predicted_class == inference.predicted_class
             region_idx == RegionIdx(predicted_class)
             region == regions[region_idx]
             metadata == [region |-> region.name,
                          confidence |-> Rat(inference.confidence, 100),
                          predicted_class |-> predicted_class]
         IN  [out |-> Return(<<region.center, metadata>>), is_loaded |-> TRUE]

\* A coordinate value in ten-thousandths of a degree (its denominator
\* divides 10000).
Units(r) == r.num * (10000 \div r.den)

\* x * x as <<millions, rest>>, for |x| below 4,000,000: the product itself
\* does not fit the integers used here.
Square(x) ==
    LET a == Abs(x)
        h == a \div 1000
        l == a % 1000
        cross == 2 * h * l
        lo == (cross % 1000) * 1000 + l * l
    IN  <<h * h + cross \div 1000 + lo \div 1000000, lo % 1000000>>

BigAdd(a, b) ==
    <<a[1] + b[1] + (a[2] + b[2]) \div 1000000, (a[2] + b[2]) % 1000000>>
BigLess(a, b) == a[1] < b[1] \/ (a[1] = b[1] /\ a[2] < b[2])

\* model.py 115: the distance to a region's center; its square stands for
\* it, the square root keeping the order.
PlanarDist(lat, lon, center) ==
    BigAdd(Square(Units(lat) - Units(center[1])),
           Square(Units(lon) - Units(center[2])))

\* A slip: the comparison turned around.
IsCloserReversed(dist, min_dist) == min_dist # None /\ BigLess(min_dist[1], dist)
\* model.py 117: dist < min_dist, min_dist being None for float('inf').
IsCloser(dist, min_dist) == min_dist = None \/ BigLess(dist, min_dist[1])

\* model.py 111-119: the loop over self.regions.items(), from region_id on.
RECURSIVE ClosestFrom(_, _, _, _, _)
ClosestFrom(region_id, lat, lon, min_dist, closest_region) ==
    IF region_id \notin DOMAIN regions THEN closest_region
    ELSE LET dist == PlanarDist(lat, lon, regions[region_id].center)
         IN  IF IsCloser(dist, min_dist)
             THEN ClosestFrom(region_id + 1, lat, lon, Some(dist),
                              Some(regions[region_id]))
             ELSE ClosestFrom(region_id + 1, lat, lon, min_dist, closest_region)

\* GeoPredictor.get_region_info
get_region_info(lat, lon) == ClosestFrom(0, lat, lon, None, None)

-----------------------------------------------------------------------------
(* main.py *)

ExitOk == 0
ExitError == 1
\* exit_code while main is still running.
NoExit == None

VeryCloseKm == 10
SameRegionKm == 100
MetersDisplayKm == 1

Call(fn, args, out) == [kind |-> "call", name |-> fn, args |-> args, out |-> out]
rprint(what, values) ==
    [kind |-> "print", name |-> what, args |-> values, out |-> Return(None)]
console_print(what, values) == rprint(what, values)

\* n / k rounded to the nearest integer, ties to even (n >= 0, k > 0).
RoundDiv(n, k) ==
    LET q == n \div k
        r == n % k
    IN  IF 2 * r < k THEN q
        ELSE IF 2 * r > k THEN q + 1
        ELSE IF q % 2 = 0 THEN q ELSE q + 1

\* main.py 80-84: the distance line, in metres below 1 km, else in tenths
\* of a kilometre.
DistanceDisplay(distance_km) ==
    IF distance_km < MetersDisplayKm * MetersPerKm
    THEN <<"meters", distance_km>>
    ELSE <<"kilometers", RoundDiv(distance_km, MetersPerKm \div 10)>>

\* A slip: the thresholds taken inclusive.
AccuracyTierInclusive(distance_km) ==
    IF distance_km <= VeryCloseKm * MetersPerKm THEN "very close"
    ELSE IF distance_km <= SameRegionKm * MetersPerKm THEN "same region"
    ELSE "far"

\* main.py 87-92
AccuracyTier(distance_km) ==
    IF distance_km < VeryCloseKm * MetersPerKm THEN "very close"
    ELSE IF distance_km < SameRegionKm * MetersPerKm THEN "same region"
    ELSE "far"

InitLocals ==
    [image_array |-> None, predicted_coords |-> None, metadata |-> None,
     location_data |-> None, location_str |-> None, exif_coords |-> None,
     exif_location_data |-> None, exif_location_str |-> None,
     distance_km |-> None]

\* Inputs of a run of main, kept small: the files at image_path, the
\* service's answers.
MainImages == {RGB(77, 204, 77), Gray(128)}
MainImageFiles == {Decodable(img) : img \in MainImages} \cup {Undecodable}
MainBodies ==
    {EmptyDict,
     [display_name |-> "somewhere",
      address |-> [city |-> "New York", state |-> "New York", country |-> "USA"]],
     [display_name |-> "somewhere", address |-> [country |-> "USA"]]}
MainResponses ==
    { Response(s, "Not Found", IF s = HttpOk THEN b ELSE EmptyDict) :
        s \in {200, 204, 404}, b \in MainBodies } \cup {ConnectionError}
GpsTags(la, lar, lo, lor) ==
    (GpsLatitude :> Tag(la)) @@ (GpsLatitudeRef :> Tag(lar)) @@
    (GpsLongitude :> Tag(lo)) @@ (GpsLongitudeRef :> Tag(lor))
MainTagSets ==
    {EmptyDict,
     (OtherTag :> Tag("EXIF Value")),
     (GpsLatitude :> Tag(<<Ratio(40, 1), Ratio(42, 1), Ratio(4608, 100)>>)) @@
         (GpsLatitudeRef :> Tag("N")),
     GpsTags(<<Ratio(40, 1), Ratio(42, 1), Ratio(4608, 100)>>, "N",
             <<Ratio(74, 1), Ratio(0, 1), Ratio(216, 10)>>, "W"),
     GpsTags(<<Ratio(33, 1), Ratio(52, 1), Ratio(78, 10)>>, "S",
             <<Ratio(151, 1), Ratio(12, 1), Ratio(33, 1)>>, "E"),
     GpsTags(<<Ratio(33, 1), Ratio(52, 2), Ratio(1, 0)>>, "N",
             <<Ratio(74, 1), Ratio(0, 1), Ratio(216, 10)>>, "W")}
MainExifFiles == {Readable(t) : t \in MainTagSets} \cup {Unreadable}

\* main.py 96-98: except Exception as e: print the message, exit code 1.
\* A slip: the handler prints the error and leaves with code 0.
HandlerExitCodeOk == ExitOk
HandlerExitCode == ExitError
Handle(e, tr) ==
    /\ trace' = Append(tr, rprint("Error", <<e.msg>>))
    /\ exit_code' = Some(HandlerExitCode)
    /\ pc' = "done"

\* Falling off the end of main: exit code 0.
Finish(tr) ==
    /\ trace' = tr
    /\ exit_code' = Some(ExitOk)
    /\ pc' = "done"

Goto(label, tr) ==
    /\ trace' = tr
    /\ exit_code' = exit_code
    /\ pc' = label

\* main.py 24-30
MainStart ==
    /\ pc = "start"
    /\ Goto("load_image",
            trace \o <<rprint("Processing image", <<>>),
                       rprint("EXIF verification", <<use_exif>>)>>)
    /\ UNCHANGED <<use_exif, locals, image, exif_data, is_loaded, ret>>

\* main.py 34
MainLoadImage ==
    /\ pc = "load_image"
    /\ \E file \in MainImageFiles :
        LET r == load_image(image, file)
            tr == Append(trace, Call("load_image", <<>>, r.out))
        IN  /\ image' = r.image
            /\ IF r.out.kind = "raise" THEN Handle(r.out, tr)
               ELSE Goto("preprocess_image", tr)
    /\ UNCHANGED <<use_exif, locals, exif_data, is_loaded, ret>>

\* main.py 35
MainPreprocessImage ==
    /\ pc = "preprocess_image"
    /\ LET out == preprocess_image(image)
           tr == Append(trace, Call("preprocess_image", <<>>, out))
       IN  IF out.kind = "raise"
           THEN Handle(out, tr) /\ UNCHANGED locals
           ELSE /\ Goto("predict", tr)
                /\ locals' = [locals EXCEPT !.image_array = Some(out.val[1])]
    /\ UNCHANGED <<use_exif, image, exif_data, is_loaded, ret>>

\* main.py 39-40
MainPredict ==
    /\ pc = "predict"
    /\ \E inference \in Inferences :
        LET r == predict(is_loaded, locals.image_array[1], inference)
            tr == Append(trace, Call("predict", <<locals.image_array[1]>>, r.out))
        IN  /\ is_loaded' = r.is_loaded
            /\ IF r.out.kind = "raise"
               THEN Handle(r.out, tr) /\ UNCHANGED locals
               ELSE /\ Goto("reverse_geocode", tr)
                    /\ locals' = [locals EXCEPT
                                     !.predicted_coords = Some(r.out.val[1][1]),
                                     !.metadata = Some(r.out.val[1][2])]
    /\ UNCHANGED <<use_exif, image, exif_data, ret>>

\* A slip: a failed geocoding call is made once more before giving up.
MainReverseGeocodeRetrying ==
    /\ pc = "reverse_geocode"
    /\ \E response \in MainResponses :
        LET c == locals.predicted_coords[1]
            out == reverse_geocode(c[1], c[2], response)
            tr == Append(trace, Call("reverse_geocode", <<c[1], c[2]>>, out))
            tried == \E i \in 1..Len(trace) : trace[i].name = "reverse_geocode"
        IN  IF out.kind = "raise"
            THEN /\ IF tried THEN Handle(out, tr)
                    ELSE Goto("reverse_geocode", tr)
                 /\ UNCHANGED locals
            ELSE /\ Goto("format_location", tr)
                 /\ locals' = [locals EXCEPT !.location_data = Some(out.val[1])]
    /\ UNCHANGED <<use_exif, image, exif_data, is_loaded, ret>>

\* main.py 43
MainReverseGeocode ==
    /\ pc = "reverse_geocode"
    /\ \E response \in MainResponses :
        LET c == locals.predicted_coords[1]
            out == reverse_geocode(c[1], c[2], response)
            tr == Append(trace, Call("reverse_geocode", <<c[1], c[2]>>, out))
        IN  IF out.kind = "raise"
            THEN Handle(out, tr) /\ UNCHANGED locals
            ELSE /\ Goto("format_location", tr)
                 /\ locals' = [locals EXCEPT !.location_data = Some(out.val[1])]
    /\ UNCHANGED <<use_exif, image, exif_data, is_loaded, ret>>

\* main.py 44
MainFormatLocation ==
    /\ pc = "format_location"
    /\ LET s == format_location(locals.location_data[1])
       IN  /\ Goto("report",
                   Append(trace, Call("format_location",
                                      <<locals.location_data[1]>>, Return(s))))
           /\ locals' = [locals EXCEPT !.location_str = Some(s)]
    /\ UNCHANGED <<use_exif, image, exif_data, is_loaded, ret>>

\* A slip: the EXIF check made whether or not it was asked for.
MainReportAlwaysVerifies ==
    /\ pc = "report"
    /\ LET c == locals.predicted_coords[1]
           tr == trace \o
                   <<rprint("Predicted location", <<locals.location_str[1]>>),
                     rprint("Coordinates", <<c[1], c[2]>>),
                     rprint("Confidence", <<locals.metadata[1].confidence>>)>>
       IN  Goto("extract_exif", tr)
    /\ UNCHANGED <<use_exif, locals, image, exif_data, is_loaded, ret>>

\* A slip: with verification requested, the prediction is held back to be
\* shown with the comparison.
MainReportDeferred ==
    /\ pc = "report"
    /\ LET c == locals.predicted_coords[1]
           tr == trace \o
                   <<rprint("Predicted location", <<locals.location_str[1]>>),
                     rprint("Coordinates", <<c[1], c[2]>>),
                     rprint("Confidence", <<locals.metadata[1].confidence>>)>>
       IN  IF use_exif THEN Goto("extract_exif", trace) ELSE Finish(tr)
    /\ UNCHANGED <<use_exif, locals, image, exif_data, is_loaded, ret>>

\* main.py 47-52
MainReport ==
    /\ pc = "report"
    /\ LET c == locals.predicted_coords[1]
           tr == trace \o
                   <<rprint("Predicted location", <<locals.location_str[1]>>),
                     rprint("Coordinates", <<c[1], c[2]>>),
                     rprint("Confidence", <<locals.metadata[1].confidence>>)>>
       IN  IF use_exif THEN Goto("extract_exif", tr) ELSE Finish(tr)
    /\ UNCHANGED <<use_exif, locals, image, exif_data, is_loaded, ret>>

\* main.py 54
MainExtractExif ==
    /\ pc = "extract_exif"
    /\ \E file \in MainExifFiles :
        LET r == extract_exif(exif_data, file)
            tr == Append(trace, Call("extract_exif", <<>>, r.out))
        IN  /\ exif_data' = r.exif_data
            /\ IF r.out.kind = "raise" THEN Handle(r.out, tr)
               ELSE Goto("get_gps_from_exif", tr)
    /\ UNCHANGED <<use_exif, locals, image, is_loaded, ret>>

\* A slip: exif_coords unpacked without the check for None.
MainGetGpsUnchecked ==
    /\ pc = "get_gps_from_exif"
    /\ LET out == get_gps_from_exif(exif_data)
           tr == Append(trace, Call("get_gps_from_exif", <<>>, out))
       IN  IF out.kind = "raise"
           THEN Handle(out, tr) /\ UNCHANGED locals
           ELSE /\ locals' = [locals EXCEPT !.exif_coords = out.val[1]]
                /\ IF Truthy(out.val[1])
                   THEN Goto("reverse_geocode_exif", tr)
                   ELSE Handle(Raise("cannot unpack non-iterable NoneType object"),
                               tr)
    /\ UNCHANGED <<use_exif, image, exif_data, is_loaded, ret>>

\* main.py 55-58 and 93-94
MainGetGps ==
    /\ pc = "get_gps_from_exif"
    /\ LET out == get_gps_from_exif(exif_data)
           tr == Append(trace, Call("get_gps_from_exif", <<>>, out))
       IN  IF out.kind = "raise"
           THEN Handle(out, tr) /\ UNCHANGED locals
           ELSE /\ locals' = [locals EXCEPT !.exif_coords = out.val[1]]
                /\ IF Truthy(out.val[1])
                   THEN Goto("reverse_geocode_exif", tr)
                   ELSE Finish(Append(tr,
                            rprint("No GPS data found in EXIF metadata.", <<>>)))
    /\ UNCHANGED <<use_exif, image, exif_data, is_loaded, ret>>

\* main.py 61
MainReverseGeocodeExif ==
    /\ pc = "reverse_geocode_exif"
    /\ \E response \in MainResponses :
        LET c == locals.exif_coords[1]
            out == reverse_geocode(c[1], c[2], response)
            tr == Append(trace, Call("reverse_geocode", <<c[1], c[2]>>, out))
        IN  IF out.kind = "raise"
            THEN Handle(out, tr) /\ UNCHANGED locals
            ELSE /\ Goto("format_location_exif", tr)
                 /\ locals' = [locals EXCEPT
                                  !.exif_location_data = Some(out.val[1])]
    /\ UNCHANGED <<use_exif, image, exif_data, is_loaded, ret>>

\* main.py 62
MainFormatLocationExif ==
    /\ pc = "format_location_exif"
    /\ LET s == format_location(locals.exif_location_data[1])
       IN  /\ Goto("calculate_distance",
                   Append(trace, Call("format_location",
                                      <<locals.exif_location_data[1]>>,
                                      Return(s))))
           /\ locals' = [locals EXCEPT !.exif_location_str = Some(s)]
    /\ UNCHANGED <<use_exif, image, exif_data, is_loaded, ret>>

\* A slip: the distance taken from the EXIF coordinate to the predicted one.
MainCalculateDistanceSwapped ==
    /\ pc = "calculate_distance"
    /\ \E d \in calculate_distance(locals.exif_coords[1],
                                   locals.predicted_coords[1]) :
        /\ Goto("compare",
                Append(trace, Call("calculate_distance",
                                   <<locals.exif_coords[1],
                                     locals.predicted_coords[1]>>, Return(d))))
        /\ locals' = [locals EXCEPT !.distance_km = Some(d)]
    /\ UNCHANGED <<use_exif, image, exif_data, is_loaded, ret>>

\* main.py 65
MainCalculateDistance ==
    /\ pc = "calculate_distance"
    /\ \E d \in calculate_distance(locals.predicted_coords[1],
                                   locals.exif_coords[1]) :
        /\ Goto("compare",
                Append(trace, Call("calculate_distance",
                                   <<locals.predicted_coords[1],
                                     locals.exif_coords[1]>>, Return(d))))
        /\ locals' = [locals EXCEPT !.distance_km = Some(d)]
    /\ UNCHANGED <<use_exif, image, exif_data, is_loaded, ret>>

\* main.py 68-92
MainCompare ==
    /\ pc = "compare"
    /\ LET d == locals.distance_km[1]
       IN  Finish(trace \o
               <<console_print("Prediction vs. EXIF Data",
                       <<locals.location_str[1], locals.exif_location_str[1],
                         locals.predicted_coords[1], locals.exif_coords[1]>>),
                 rprint("Distance", DistanceDisplay(d)),
                 rprint("Accuracy", <<AccuracyTier(d)>>)>>)
    /\ UNCHANGED <<use_exif, locals, image, exif_data, is_loaded, ret>>

\* A call on a component: its arguments, what the outside world gave it
\* (a response, a file, an inference) and its outcome.
Called(fn, args, env, out) ==
    [name |-> fn, args |-> args, env |-> env, out |-> out]
NoCall == Called("none", <<>>, <<>>, Return(None))

\* A run of main: the option is given, the components are freshly built.
Init ==
    /\ pc = "start"
    /\ use_exif \in BOOLEAN
    /\ trace = <<>>
    /\ exit_code = NoExit
    /\ locals = InitLocals
    /\ image = None
    /\ exif_data = EmptyDict
    /\ is_loaded = InitIsLoaded
    /\ ret = NoCall

Next ==
    \/ MainStart
    \/ MainLoadImage
    \/ MainPreprocessImage
    \/ MainPredict
    \/ MainReverseGeocode
    \/ MainFormatLocation
    \/ MainReport
    \/ MainExtractExif
    \/ MainGetGps
    \/ MainReverseGeocodeExif
    \/ MainFormatLocationExif
    \/ MainCalculateDistance
    \/ MainCompare

Spec == Init /\ [][Next]_vars

-----------------------------------------------------------------------------
(* The components on their own: any method, any arguments, in any order. *)

InitComponents ==
    /\ pc = "idle"
    /\ use_exif = FALSE
    /\ trace = <<>>
    /\ exit_code = NoExit
    /\ locals = InitLocals
    /\ image = None
    /\ exif_data = EmptyDict
    /\ is_loaded = InitIsLoaded
    /\ ret = NoCall

Coordinates ==
    {regions[i].center : i \in DOMAIN regions} \cup {<<Rat(0, 1), Rat(0, 1)>>}

\* A Geocoder keeps nothing between calls (user_agent and base_url are set
\* once), so each call is taken on the Geocoder as constructed.
GeoReverseGeocode ==
    /\ ret.name = "none"
    /\ \E c \in Coordinates, response \in Responses(GeocodeBodies) :
        ret' = Called("reverse_geocode", <<c[1], c[2]>>, <<response>>,
                      reverse_geocode(c[1], c[2], response))
    /\ UNCHANGED <<pc, use_exif, trace, exit_code, locals, image, exif_data,
                   is_loaded>>

GeoFormatLocation ==
    /\ ret.name = "none"
    /\ \E geocode_data \in GeocodeBodies :
        ret' = Called("format_location", <<geocode_data>>, <<>>,
                      Return(format_location(geocode_data)))
    /\ UNCHANGED <<pc, use_exif, trace, exit_code, locals, image, exif_data,
                   is_loaded>>

GeoCalculateDistance ==
    /\ ret.name = "none"
    /\ \E c1 \in Coordinates, c2 \in Coordinates :
        \E d \in calculate_distance(c1, c2) :
            ret' = Called("calculate_distance", <<c1, c2>>, <<>>, Return(d))
    /\ UNCHANGED <<pc, use_exif, trace, exit_code, locals, image, exif_data,
                   is_loaded>>

NextGeocoder == GeoReverseGeocode \/ GeoFormatLocation \/ GeoCalculateDistance

SpecGeocoder == InitComponents /\ [][NextGeocoder]_vars


IpLoadImage ==
    /\ \E file \in ImageFiles :
        LET r == load_image(image, file)
        IN  /\ image' = r.image
            /\ ret' = Called("load_image", <<>>, <<file>>, r.out)
    /\ UNCHANGED <<pc, use_exif, trace, exit_code, locals, exif_data, is_loaded>>

IpPreprocessImage ==
    /\ ret' = Called("preprocess_image", <<>>, <<>>, preprocess_image(image))
    /\ UNCHANGED <<pc, use_exif, trace, exit_code, locals, image, exif_data,
                   is_loaded>>

IpExtractExif ==
    /\ \E file \in MainExifFiles :
        LET r == extract_exif(exif_data, file)
        IN  /\ exif_data' = r.exif_data
            /\ ret' = Called("extract_exif", <<>>, <<file>>, r.out)
    /\ UNCHANGED <<pc, use_exif, trace, exit_code, locals, image, is_loaded>>

IpGetGps ==
    /\ ret' = Called("get_gps_from_exif", <<>>, <<>>,
                     get_gps_from_exif(exif_data))
    /\ UNCHANGED <<pc, use_exif, trace, exit_code, locals, image, exif_data,
                   is_loaded>>

NextImageProcessor ==
    IpLoadImage \/ IpPreprocessImage \/ IpExtractExif \/ IpGetGps

SpecImageProcessor == InitComponents /\ [][NextImageProcessor]_vars

\* get_gps_from_exif on every tag dict extract_exif can have stored.
InitGetGps ==
    /\ pc = "idle"
    /\ use_exif = FALSE
    /\ trace = <<>>
    /\ exit_code = NoExit
    /\ locals = InitLocals
    /\ image = None
    /\ exif_data \in TagSets
    /\ is_loaded = InitIsLoaded
    /\ ret = NoCall

SpecGetGps == InitGetGps /\ [][IpGetGps]_vars

Tensors == {preprocess_image(Some(img)).val[1] : img \in Images}

PredPredict ==
    /\ \E image_array \in Tensors, inference \in Inferences :
        LET r == predict(is_loaded, image_array, inference)
        IN  /\ is_loaded' = r.is_loaded
            /\ ret' = Called("predict", <<image_array>>, <<inference>>, r.out)
    /\ UNCHANGED <<pc, use_exif, trace, exit_code, locals, image, exif_data>>

\* Coordinates get_region_info is asked about: the corners and the middle of
\* the coordinate range, points near and between centers.
QueryLatitudes == {-900000, -338688, -100000, 0, 407000, 422000, 900000}
QueryLongitudes == {-1800000, -740000, 0, 23522, 700000, 1454000, 1800000}
QueryPoints ==
    { <<Rat(la, 10000), Rat(lo, 10000)>> :
        la \in QueryLatitudes, lo \in QueryLongitudes }

PredGetRegionInfo ==
    /\ \E c \in QueryPoints :
        ret' = Called("get_region_info", <<c[1], c[2]>>, <<>>,
                      Return(get_region_info(c[1], c[2])))
    /\ UNCHANGED <<pc, use_exif, trace, exit_code, locals, image, exif_data,
                   is_loaded>>

NextPredictor == PredPredict \/ PredGetRegionInfo

SpecPredictor == InitComponents /\ [][NextPredictor]_vars

-----------------------------------------------------------------------------
(* Properties of a run of main (Spec) *)

CallsOf(fn) == SelectSeq(trace, LAMBDA e : e.kind = "call" /\ e.name = fn)
PrintsOf(what) == SelectSeq(trace, LAMBDA e : e.kind = "print" /\ e.name = what)
RaisingCalls == SelectSeq(trace, LAMBDA e : e.kind = "call" /\ e.out.kind = "raise")
Names(events) == [i \in 1..Len(events) |-> events[i].name]
IsPrefix(a, b) == Len(a) <= Len(b) /\ \A i \in 1..Len(a) : a[i] = b[i]

Done == pc = "done"
Succeeded == Done /\ exit_code = Some(0)

\* C1: in a run without verification in which no stage fails, reverse_geocode
\* is called exactly once, with the coordinate predict returned; the location
\* reported is what format_location returned for that call's result; and
\* extract_exif and get_gps_from_exif are never called in such a run.
C1_NoVerification ==
    ~use_exif =>
        /\ CallsOf("extract_exif") = <<>>
        /\ CallsOf("get_gps_from_exif") = <<>>
        /\ Len(CallsOf("reverse_geocode")) <= 1
        /\ Succeeded =>
            LET g == CallsOf("reverse_geocode")
                p == CallsOf("predict")
                f == CallsOf("format_location")
                shown == PrintsOf("Predicted location")
            IN  /\ Len(g) = 1 /\ Len(p) = 1 /\ Len(f) = 1 /\ Len(shown) = 1
                /\ g[1].args = p[1].out.val[1][1]
                /\ f[1].args = g[1].out.val
                /\ shown[1].args = f[1].out.val

\* A run without verification has ended well, its one geocoding answer shown.
C1_Witness ==
    /\ ~use_exif
    /\ Succeeded
    /\ Len(CallsOf("reverse_geocode")) = 1
    /\ PrintsOf("Predicted location") # <<>>
    /\ PrintsOf("Predicted location")[1].args = <<"New York, New York, USA">>

GpsReturnedNone ==
    \E i \in 1..Len(trace) :
        /\ trace[i].kind = "call" /\ trace[i].name = "get_gps_from_exif"
        /\ trace[i].out.kind = "return" /\ trace[i].out.val[1] = None

\* C2: when verification is requested and get_gps_from_exif yields no
\* coordinate, the run ends with exit code 0 and no error, reports that no
\* GPS data was found, has made one reverse_geocode call only, and computes
\* neither a distance nor an accuracy tier.
C2_NoGpsData ==
    GpsReturnedNone =>
        /\ use_exif
        /\ Done
        /\ exit_code = Some(0)
        /\ PrintsOf("Error") = <<>>
        /\ Len(PrintsOf("No GPS data found in EXIF metadata.")) = 1
        /\ Len(CallsOf("reverse_geocode")) = 1
        /\ CallsOf("calculate_distance") = <<>>
        /\ PrintsOf("Distance") = <<>>
        /\ PrintsOf("Accuracy") = <<>>

\* get_gps_from_exif found GPS tags, though not all four, and returned None.
C2_Witness ==
    /\ GpsReturnedNone
    /\ GpsLatitude \in Keys(exif_data)
    /\ Done

StageNames == {"load_image", "preprocess_image", "predict", "reverse_geocode",
               "extract_exif", "get_gps_from_exif", "calculate_distance"}
Stages ==
    SelectSeq(trace, LAMBDA e : \/ e.kind = "call" /\ e.name \in StageNames
                                \/ e.kind = "print" /\ e.name = "Accuracy")
VerifiedOrder ==
    <<"load_image", "preprocess_image", "predict", "reverse_geocode",
      "extract_exif", "get_gps_from_exif", "reverse_geocode",
      "calculate_distance", "Accuracy">>

\* C3: the stages of a run occur in the order load_image, preprocess_image,
\* predict, reverse_geocode(predicted), extract_exif, get_gps_from_exif,
\* reverse_geocode(actual), calculate_distance, accuracy tier; a verified run
\* with an EXIF coordinate in which no stage fails goes through all of them,
\* calling reverse_geocode twice and calculate_distance once, on
\* (predicted coordinate, EXIF coordinate).
C3_StageOrder ==
    /\ IsPrefix(Names(Stages), VerifiedOrder)
    /\ (use_exif /\ Succeeded /\ ~GpsReturnedNone) =>
        LET g == CallsOf("reverse_geocode")
            d == CallsOf("calculate_distance")
            predicted == CallsOf("predict")[1].out.val[1][1]
            actual == CallsOf("get_gps_from_exif")[1].out.val[1][1]
        IN  /\ Names(Stages) = VerifiedOrder
            /\ Len(g) = 2 /\ Len(d) = 1
            /\ g[1].args = predicted
            /\ g[2].args = actual
            /\ d[1].args = <<predicted, actual>>

\* A verified run has ended well with an EXIF coordinate in the south-east.
C3_Witness ==
    /\ use_exif /\ Succeeded
    /\ Len(CallsOf("calculate_distance")) = 1
    /\ CallsOf("calculate_distance")[1].args[2][1].num < 0

\* C4: a run ends with exit code 1 exactly if a stage raised, and then the
\* message of what was raised is the last thing printed, as the error;
\* otherwise it ends with exit code 0 and prints no error.  No stage runs
\* after one that raised.
C4_ExitCode ==
    /\ ~Done => exit_code = None /\ RaisingCalls = <<>>
    /\ Done =>
        /\ exit_code \in {Some(0), Some(1)}
        /\ exit_code = Some(1) <=> RaisingCalls # <<>>
        /\ exit_code = Some(1) =>
            /\ Len(RaisingCalls) = 1
            /\ trace[Len(trace) - 1] = RaisingCalls[1]
            /\ trace[Len(trace)].kind = "print"
            /\ trace[Len(trace)].name = "Error"
            /\ trace[Len(trace)].args = <<RaisingCalls[1].out.msg>>
        /\ exit_code = Some(0) => PrintsOf("Error") = <<>>

\* The service answered 404 to the second geocoding call and the run ended
\* with exit code 1.
C4_Witness ==
    /\ Done /\ exit_code = Some(1)
    /\ Len(CallsOf("reverse_geocode")) = 2
    /\ trace[Len(trace)].args = <<"Geocoding API error: 404 - Not Found">>

\* C6: a verified run that computed the distance d reports exactly one
\* accuracy tier, fixed by d in kilometres alone: "very close" below 10 km,
\* "same region" from 10 km to below 100 km, "far" from 100 km; the distance
\* is shown in metres exactly when d is below 1 km, which leaves the tier as
\* it is.
C6_AccuracyTier ==
    CallsOf("calculate_distance") # <<>> /\ Done =>
        LET d == CallsOf("calculate_distance")[1].out.val[1]
            tier == PrintsOf("Accuracy")
            shown == PrintsOf("Distance")
        IN  /\ Len(tier) = 1 /\ Len(shown) = 1
            /\ tier[1].args[1] \in {"very close", "same region", "far"}
            /\ tier[1].args[1] = "very close" <=> d < 10000
            /\ tier[1].args[1] = "same region" <=> (10000 <= d /\ d < 100000)
            /\ tier[1].args[1] = "far" <=> d >= 100000
            /\ shown[1].args[1] = "meters" <=> d < 1000
            /\ shown[1].args[1] = "kilometers" <=> d >= 1000

\* A distance of exactly 10 km was computed and reported as "same region".
C6_Witness ==
    /\ Done
    /\ CallsOf("calculate_distance") # <<>>
    /\ CallsOf("calculate_distance")[1].out.val[1] = 10000
    /\ PrintsOf("Accuracy")[1].args = <<"same region">>

-----------------------------------------------------------------------------
(* Properties of Geocoder (SpecGeocoder) *)

\* C5: when the service answers, reverse_geocode returns the answer's
\* structured body exactly if the status is 200; on any other status it
\* raises "Geocoding API error" with that status code and the raw body text,
\* and returns nothing.
C5_ReverseGeocodeStatus ==
    (ret.name = "reverse_geocode" /\ ret.env[1].arrived) =>
        LET response == ret.env[1]
        IN  /\ ret.out.kind = "return" <=> response.status_code = 200
            /\ response.status_code = 200 => ret.out.val = <<response.json>>
            /\ response.status_code # 200 =>
                /\ ret.out.kind = "raise"
                /\ ret.out.val = <<>>
                /\ ret.out.msg = "Geocoding API error: "
                                     \o ToString(response.status_code)
                                     \o " - " \o response.text

\* The service answered 204 and reverse_geocode raised the error for it.
C5_Witness ==
    /\ ret.name = "reverse_geocode"
    /\ ret.env[1].arrived
    /\ ret.env[1].status_code = 204
    /\ ret.out.msg = "Geocoding API error: 204 - Not Found"

\* The value under the first of keys that address has, if it has any.
FirstOf(keys, address) ==
    LET present == {i \in 1..Len(keys) : keys[i] \in DOMAIN address}
    IN  IF present = {} THEN <<>>
        ELSE <<address[keys[CHOOSE i \in present : \A j \in present : i <= j]]>>

CommaJoined(segments) ==
    CASE Len(segments) = 1 -> segments[1]
      [] Len(segments) = 2 -> segments[1] \o ", " \o segments[2]
      [] Len(segments) = 3 ->
            segments[1] \o ", " \o segments[2] \o ", " \o segments[3]

\* C9: format_location returns the ", "-join of the locality segment (the
\* first present of city, town, village, hamlet), the region segment (the
\* first present of state, province, region) and the country segment, in
\* that order, a missing segment left out; it returns "Unknown location"
\* exactly when none of the eight fields is present.
C9_FormatLocation ==
    ret.name = "format_location" =>
        LET data == ret.args[1]
            address == IF "address" \in DOMAIN data THEN data["address"] ELSE <<>>
            segments == FirstOf(<<"city", "town", "village", "hamlet">>, address)
                            \o FirstOf(<<"state", "province", "region">>, address)
                            \o FirstOf(<<"country">>, address)
            result == ret.out.val[1]
        IN  /\ ret.out.kind = "return"
            /\ segments # <<>> => result = CommaJoined(segments)
            /\ result = "Unknown location" <=> segments = <<>>

\* An address without city, with town, village, province, region and country.
C9_Witness ==
    /\ ret.name = "format_location"
    /\ "address" \in DOMAIN ret.args[1]
    /\ DOMAIN ret.args[1]["address"] =
           {"town", "village", "province", "region", "country", "road"}
    /\ ret.out.val = <<"Smalltown, Ontario, USA">>

-----------------------------------------------------------------------------
(* Properties of ImageProcessor.get_gps_from_exif (SpecGetGps) *)

HasAllGpsKeys ==
    {"GPS GPSLatitude", "GPS GPSLatitudeRef", "GPS GPSLongitude",
     "GPS GPSLongitudeRef"} \subseteq DOMAIN exif_data

\* C7: get_gps_from_exif returns None, raising nothing, whenever exif_data is
\* empty or lacks one of the four GPS keys; it returns a coordinate only when
\* all four are there.
C7_MissingKeys ==
    ret.name = "get_gps_from_exif" =>
        /\ ~HasAllGpsKeys => ret.out.kind = "return" /\ ret.out.val[1] = None
        /\ (ret.out.kind = "return" /\ ret.out.val[1] # None) => HasAllGpsKeys

\* Three of the four GPS keys are there and None was returned.
C7_Witness ==
    /\ ret.name = "get_gps_from_exif"
    /\ DOMAIN exif_data =
           {"GPS GPSLatitude", "GPS GPSLatitudeRef", "GPS GPSLongitude"}
    /\ ret.out.kind = "return" /\ ret.out.val[1] = None

WellFormed(tag) ==
    Len(tag.values) = 3 /\ \A i \in 1..3 : tag.values[i].den # 0

\* d + m/60 + s/3600 over one denominator, times sign.
Degrees(tag, sign) ==
    LET d == tag.values[1]
        m == tag.values[2]
        s == tag.values[3]
    IN  Rat(sign * (3600 * d.num * m.den * s.den + 60 * m.num * d.den * s.den
                        + s.num * d.den * m.den),
            3600 * d.den * m.den * s.den)

\* C8: with all four GPS keys present (and well-formed values),
\* get_gps_from_exif returns latitude -(d + m/60 + s/3600) exactly when the
\* latitude reference is 'S', longitude -(d + m/60 + s/3600) exactly when
\* the longitude reference is 'W', and the value with its sign unchanged for
\* every other reference.
C8_HemisphereSign ==
    (ret.name = "get_gps_from_exif" /\ HasAllGpsKeys
        /\ WellFormed(exif_data["GPS GPSLatitude"])
        /\ WellFormed(exif_data["GPS GPSLongitude"])) =>
        /\ ret.out.kind = "return"
        /\ ret.out.val[1] # None
        /\ ret.out.val[1][1] =
             <<Degrees(exif_data["GPS GPSLatitude"],
                       IF exif_data["GPS GPSLatitudeRef"].values = "S"
                       THEN -1 ELSE 1),
               Degrees(exif_data["GPS GPSLongitude"],
                       IF exif_data["GPS GPSLongitudeRef"].values = "W"
                       THEN -1 ELSE 1)>>

\* Latitude reference 's' and longitude reference 'W': the latitude keeps its
\* sign, the longitude is negated.
C8_Witness ==
    /\ ret.name = "get_gps_from_exif"
    /\ HasAllGpsKeys
    /\ exif_data["GPS GPSLatitudeRef"].values = "s"
    /\ exif_data["GPS GPSLongitudeRef"].values = "W"
    /\ ret.out.kind = "return"
    /\ ret.out.val[1] # None
    /\ ret.out.val[1][1][1].num > 0
    /\ ret.out.val[1][1][2].num < 0

-----------------------------------------------------------------------------
(* Properties of GeoPredictor (SpecPredictor) *)

RLess(a, b) == a.num * b.den < b.num * a.den

\* The region the channel means select: green strictly greatest 0, else red
\* strictly greatest 4, else blue strictly greatest 5, else none.
DominantRegion(means) ==
    LET red == means[1]
        green == means[2]
        blue == means[3]
    IN  IF RLess(red, green) /\ RLess(blue, green) THEN <<0>>
        ELSE IF RLess(green, red) /\ RLess(blue, red) THEN <<4>>
        ELSE IF RLess(red, blue) /\ RLess(green, blue) THEN <<5>>
        ELSE <<>>

\* C10: predict selects the region from the per-channel means (green
\* strictly greatest: 0; else red strictly greatest: 4; else blue strictly
\* greatest: 5) and returns that region's center, with predicted_class that
\* region's index.
C10_ChannelDominance ==
    (ret.name = "predict" /\ ret.out.kind = "return"
        /\ DominantRegion(ret.args[1].means) # <<>>) =>
        LET idx == DominantRegion(ret.args[1].means)[1]
            coordinate == ret.out.val[1][1]
            metadata == ret.out.val[1][2]
        IN  /\ coordinate = regions[idx].center
            /\ metadata.predicted_class = idx
            /\ metadata.region = regions[idx].name

-----------------------------------------------------------------------------
(* Properties of ImageProcessor (SpecImageProcessor) *)

LoadSucceeded(r) == r.name = "load_image" /\ r.out.kind = "return"

\* C11: the image is present exactly once some load_image call has succeeded
\* (a failed call on a fresh processor leaves it absent); preprocess_image
\* called while it is absent raises "No image loaded" and returns no tensor,
\* and called while it is present it returns.
C11_NoImageLoaded ==
    /\ [](ret.name = "preprocess_image" =>
            IF image = None
            THEN /\ ret.out.kind = "raise"
                 /\ ret.out.msg = "No image loaded"
                 /\ ret.out.val = <<>>
            ELSE ret.out.kind = "return")
    /\ image = None
    /\ [][(image' # None) <=> (image # None \/ LoadSucceeded(ret'))]_vars

\* preprocess_image was called with no image and raised.
C11_Witness ==
    /\ ret.name = "preprocess_image"
    /\ image = None
    /\ ret.out.msg = "No image loaded"

-----------------------------------------------------------------------------
(* Further properties of GeoPredictor (SpecPredictor) *)

\* C12: get_region_info returns a region of the catalog, never None, and no
\* catalog center is nearer to (lat, lon), by planar Euclidean distance,
\* than the center of the region returned.
C12_NearestRegion ==
    ret.name = "get_region_info" =>
        /\ ret.out.kind = "return"
        /\ ret.out.val[1] # None
        /\ \E i \in DOMAIN regions :
            /\ ret.out.val[1][1] = regions[i]
            /\ \A j \in DOMAIN regions :
                ~BigLess(PlanarDist(ret.args[1], ret.args[2], regions[j].center),
                         PlanarDist(ret.args[1], ret.args[2], regions[i].center))

\* Asked about (0, 0), get_region_info answered Africa.
C12_Witness ==
    /\ ret.name = "get_region_info"
    /\ ret.args = <<Rat(0, 1), Rat(0, 1)>>
    /\ ret.out.val[1] # None
    /\ ret.out.val[1][1].name = "Africa"

-----------------------------------------------------------------------------
\* C13. From construction on, in every state of a GeoPredictor, is_loaded
\* is true and the region catalog is non-empty.  The constructor
\* (model.py 23) leaves is_loaded False until the first load_model, so the
\* freshly constructed predictor already violates this.
C13_LoadedAfterInit ==
    /\ is_loaded
    /\ Cardinality(DOMAIN regions) > 0

-----------------------------------------------------------------------------
IsFailedGeocode(e) ==
    e.kind = "call" /\ e.name = "reverse_geocode" /\ e.out.kind = "raise"

\* C14: no stage of a run is retried.  Every stage is called at most once,
\* reverse_geocode at most once for the predicted coordinate and at most
\* once, after get_gps_from_exif, for the actual one; and a reverse_geocode
\* call that failed is the last stage of its run: the one thing after it is
\* the report of its failure, the only error reported, and the run has ended
\* with exit code 1.
C14_NoRetry ==
    LET g == CallsOf("reverse_geocode")
    IN  /\ \A fn \in StageNames \ {"reverse_geocode"} : Len(CallsOf(fn)) <= 1
        /\ Len(CallsOf("format_location")) <= 2
        /\ Len(g) <= 2
        /\ Len(g) >= 1 => g[1].args = CallsOf("predict")[1].out.val[1][1]
        /\ Len(g) = 2 =>
              /\ g[1].out.kind = "return"
              /\ Len(CallsOf("get_gps_from_exif")) = 1
              /\ g[2].args = CallsOf("get_gps_from_exif")[1].out.val[1][1]
        /\ \A i \in 1..Len(trace) :
              IsFailedGeocode(trace[i]) =>
                  /\ i = Len(trace) - 1
                  /\ trace[Len(trace)] = rprint("Error", <<trace[i].out.msg>>)
                  /\ Len(PrintsOf("Error")) = 1
                  /\ Done
                  /\ exit_code = Some(1)

\* A verified run whose first geocoding call was answered 404: it ended
\* there, before any EXIF stage.
C14_Witness ==
    /\ use_exif /\ Done
    /\ Len(CallsOf("reverse_geocode")) = 1
    /\ IsFailedGeocode(CallsOf("reverse_geocode")[1])
    /\ CallsOf("reverse_geocode")[1].out.msg = "Geocoding API error: 404 - Not Found"
    /\ CallsOf("extract_exif") = <<>>
    /\ PrintsOf("Predicted location") = <<>>

-----------------------------------------------------------------------------
\* C16: the ids of the region catalog are exactly 0..N-1, so for every class
\* the classifier outputs predict's lookup of region (class mod N) succeeds:
\* predict fails only when the model could not be loaded, and otherwise
\* returns the center and the name of catalog entry (class mod N).
C16_CatalogLookup ==
    LET N == Cardinality(DOMAIN regions)
    IN  /\ N > 0
        /\ DOMAIN regions = 0..(N - 1)
        /\ ret.name = "predict" =>
              LET class == ret.env[1].predicted_class
              IN  /\ ret.out.kind = "raise" => ~ret.env[1].available
                  /\ ret.out.kind = "return" =>
                        /\ (class % N) \in DOMAIN regions
                        /\ ret.out.val[1][1] = regions[class % N].center
                        /\ ret.out.val[1][2].region = regions[class % N].name

\* The classifier chose class 7, beyond the catalog, and predict answered
\* with region 1, South America.
C16_Witness ==
    /\ ret.name = "predict" /\ ret.out.kind = "return"
    /\ ret.env[1].predicted_class = 7
    /\ ret.out.val[1][1] = regions[1].center
    /\ ret.out.val[1][2].region = "South America"

-----------------------------------------------------------------------------
\* The calls main makes only when verifying: extract_exif and all after it.
IsVerificationStage(i) ==
    /\ trace[i].kind = "call"
    /\ \/ trace[i].name = "extract_exif"
       \/ \E j \in 1..(i - 1) :
             trace[j].kind = "call" /\ trace[j].name = "extract_exif"

\* The three lines of the prediction, as predict and format_location gave
\* them, stand in the output before position i.
PredictionReportedBefore(i) ==
    \E j \in 1..(i - 3) :
        /\ trace[j] = rprint("Predicted location",
                             CallsOf("format_location")[1].out.val)
        /\ trace[j + 1] = rprint("Coordinates",
                                 CallsOf("predict")[1].out.val[1][1])
        /\ trace[j + 2] = rprint("Confidence",
                                 <<CallsOf("predict")[1].out.val[1][2].confidence>>)

\* C17: in a run with verification the predicted location, coordinates and
\* confidence are reported before extract_exif is first called, and each is
\* reported once; so when a verification stage fails the run ends with exit
\* code 1 with the prediction already in its output, and no step of a run
\* takes back or changes what has been output.
C17_ReportedBeforeVerification ==
    /\ [](\A i \in 1..Len(trace) :
            IsVerificationStage(i) =>
                /\ use_exif
                /\ PredictionReportedBefore(i)
                /\ Len(PrintsOf("Predicted location")) = 1
                /\ Len(PrintsOf("Coordinates")) = 1
                /\ Len(PrintsOf("Confidence")) = 1
                /\ trace[i].out.kind = "raise" => Done /\ exit_code = Some(1))
    /\ [][IsPrefix(trace, trace')]_vars

\* The file could not be read for EXIF: the run ended with exit code 1, the
\* predicted location already shown.
C17_Witness ==
    /\ use_exif /\ Done /\ exit_code = Some(1)
    /\ CallsOf("extract_exif") # <<>>
    /\ CallsOf("extract_exif")[1].out.kind = "raise"
    /\ PrintsOf("Predicted location") # <<>>
    /\ PrintsOf("Predicted location")[1].args = <<"USA">>

====
